---- MODULE Spec2Model ----
(***************************************************************************)
(* Model of designer/exec/cmd_run.rs: WsRunCmd::cmd_run launches a child   *)
(* process, two reader threads stream its stdout/stderr as events, a       *)
(* watcher thread waits for exit (or cancellation) and emits Exit, and     *)
(* WsRunCmd::cleanup_threads fires the three shutdown channels.            *)
(* kill_process_tree / collect_child_processes are modelled as operators   *)
(* over a process-table snapshot.                                          *)
(***************************************************************************)
EXTENDS Integers, Sequences, FiniteSets, TLC

\* ---------------------------------------------------------------- bounds
\* Lines the child writes to its captured pipes, both pipes together.
MaxLines == 2
\* Process ids of the process table: 1..MaxPid.
MaxPid == 3

\* ------------------------------------------------------ program constants
\* Capacity of every bounded::<()>(1) channel.
ChanCap == 1
\* Sentinel exit code: status.code().unwrap_or(-1) / Err(_) => Some(-1).
Sentinel == -1

\* ----------------------------------------------------------- vocabulary
Streams == {"stdout", "stderr"}
Chans == {"stdout", "stderr", "wait"}
Pids == 1..MaxPid
\* pid of the spawned child in the session model (child.id()).
ChildPid == 1
\* Process-table entry of a pid that is not in the table.
Absent == -1
\* process.parent() == None.
NoParent == 0
\* Exit codes a child reports when it exits by itself.
ExitCodes == {0, 3}
\* ExitStatus whose code() is None (terminated by a signal).
NoCode == -2
\* Marker the bounded recursion of collect_child_processes leaves where the
\* real recursion would not return.
Overflow == 0

VARIABLES
    \* --- WsRunCmd (the session)
    spc,               \* position of the session inside cmd_run
    working_directory, \* self.working_directory: "unset" | "valid" | "invalid"
    is_log,            \* self.stdout_is_log / self.stderr_is_log
    shutdown_senders,  \* self.shutdown_senders is Some
    child,             \* self.child is Some
    closed,            \* ctx.close(None) was called
    \* --- channels
    shutdown_ch,       \* messages buffered in the three shutdown channels
    shutdown_sent,     \* send calls made on each shutdown channel
    done_ch,           \* messages buffered in the two completion channels
    done_sent,         \* send calls made on each completion channel
    \* --- reader threads
    rpc,               \* position of each reader thread
    line_res,          \* the reader's current line_res: 0 none, n Ok(line n), -1 Err
    \* --- the child process and its pipes (operating system)
    has,               \* has_stdout / has_stderr: the pipe was captured
    written,           \* lines the child has written to each pipe
    nread,             \* lines each reader has taken from its pipe
    child_st,          \* "none" | "running" | "zombie" | "reaped"
    status,            \* exit status of the child once it has exited
    sig_pending,       \* strongest signal delivered to the running child
    procs,             \* process table: pid -> parent pid, NoParent or Absent
    order,             \* iteration order of system.processes()
    spawned,           \* number of processes command.spawn() created
    \* --- watcher thread
    wpc,               \* position of the watcher thread
    watcher_child,     \* the watcher closure owns the Child handle
    exit_code,         \* exit_code the watcher derived (NoCode: not yet)
    \* --- kill_process_tree
    system,            \* the System snapshot: pid -> parent pid, NoParent or Absent
    processes_to_kill, \* the kill-candidate list of the last call
    tree_root,         \* the pid the last call was made for
    tpc,               \* position inside kill_process_tree: "idle" | "sleep" | "done"
    \* --- observations
    events,            \* events delivered to the actor / websocket, in order
    oslog,             \* signals, kill() and wait() calls made, in order
    child_at_cancel    \* child_st when cleanup_threads fired the signals

vars == <<spc, working_directory, is_log, shutdown_senders, child, closed,
          shutdown_ch, shutdown_sent, done_ch, done_sent, rpc, line_res,
          has, written, nread, child_st, status, sig_pending, procs, order,
          spawned, wpc, watcher_child, exit_code, system,
          processes_to_kill, tree_root, tpc, events, oslog, child_at_cancel>>

sessionVars == <<spc, working_directory, is_log, shutdown_senders, child, closed>>
chanVars == <<shutdown_ch, shutdown_sent, done_ch, done_sent>>
readerVars == <<rpc, line_res>>
pipeVars == <<has, written, nread>>
procVars == <<child_st, status, sig_pending, procs, spawned>>
watcherVars == <<wpc, watcher_child, exit_code>>
treeVars == <<order, system, processes_to_kill, tree_root, tpc>>

\* ------------------------------------------------- process-tree terminator
Identity == [i \in Pids |-> i]

\* collect_child_processes: walk system.processes() in iteration order ord;
\* for every process whose parent() is parent_pid, first collect its own
\* children, then push it.  fuel bounds the recursion depth.
RECURSIVE CollectFrom(_, _, _, _, _)
CollectFrom(table, ord, parent_pid, i, fuel) ==
    IF i > Len(ord) THEN <<>>
    ELSE LET pid == ord[i] IN
         IF table[pid] # Absent /\ table[pid] # NoParent /\ table[pid] = parent_pid
         THEN (IF fuel = 0 THEN <<Overflow>>
               ELSE CollectFrom(table, ord, pid, 1, fuel - 1))
              \o <<pid>>
              \o CollectFrom(table, ord, parent_pid, i + 1, fuel)
         ELSE CollectFrom(table, ord, parent_pid, i + 1, fuel)

\* The direct children of parent_pid only.
CollectDirect(table, ord, parent_pid) ==
    SelectSeq(ord, LAMBDA pid : table[pid] = parent_pid)

\* Lines 62-65 with the push before the recursive call.
RECURSIVE PushFirstFrom(_, _, _, _, _)
PushFirstFrom(table, ord, parent_pid, i, fuel) ==
    IF i > Len(ord) THEN <<>>
    ELSE LET pid == ord[i] IN
         IF table[pid] # Absent /\ table[pid] # NoParent /\ table[pid] = parent_pid
         THEN <<pid>>
              \o (IF fuel = 0 THEN <<Overflow>>
                  ELSE PushFirstFrom(table, ord, pid, 1, fuel - 1))
              \o PushFirstFrom(table, ord, parent_pid, i + 1, fuel)
         ELSE PushFirstFrom(table, ord, parent_pid, i + 1, fuel)

CollectPushFirst(table, ord, parent_pid) ==
    PushFirstFrom(table, ord, parent_pid, 1, MaxPid + 1)

collect_child_processes(table, ord, parent_pid) ==
    CollectFrom(table, ord, parent_pid, 1, MaxPid + 1)

\* The kill-candidate list of kill_process_tree: descendants, then the pid.
KillCandidates(table, ord, pid) ==
    collect_child_processes(table, ord, pid) \o <<pid>>

\* One pass of kill_process_tree: the signal goes to every candidate that
\* system.process(pid) finds in the snapshot.
RECURSIVE PassLog(_, _, _, _, _)
PassLog(list, table, sig, by, i) ==
    IF i > Len(list) THEN <<>>
    ELSE (IF list[i] \in Pids /\ table[list[i]] # Absent
          THEN <<[op |-> sig, pid |-> list[i], by |-> by]>>
          ELSE <<>>)
         \o PassLog(list, table, sig, by, i + 1)

\* ------------------------------------------------------------ helpers
Event(type, val) == [type |-> type, val |-> val]

\* RunCmdOutput variant a reader sends for one line (lines 218-229, 270-281).
OutputType(r, log) ==
    IF r = "stdout"
    THEN (IF log THEN "StdOutLog" ELSE "StdOutNormal")
    ELSE (IF log THEN "StdErrLog" ELSE "StdErrNormal")

OutputTypes(r) == {OutputType(r, TRUE), OutputType(r, FALSE)}
AllOutputTypes == OutputTypes("stdout") \cup OutputTypes("stderr")

\* The receiving end of a shutdown channel still exists: it lives in the
\* thread it was moved into and is dropped when that thread returns; a
\* receiver that was not moved is dropped when cmd_run returns.
ShutdownRxAlive(c) ==
    IF c = "wait"
    THEN wpc \notin {"none", "terminated"}
    ELSE rpc[c] \notin {"none", "terminated"}

\* The receiving ends of the completion channels are captured by the
\* watcher closure.
DoneRxAlive == wpc \notin {"none", "terminated"} \/ spc \notin {"returned", "rerun"}

\* crossbeam send on a bounded channel: Err at once when the receiver is
\* gone, otherwise the message is buffered (blocking while the buffer is full).
SendBlocks(buf, alive) == alive /\ buf >= ChanCap
SendResult(buf, alive) == IF alive THEN buf + 1 ELSE buf

\* ------------------------------------------------------------------ Init
Init ==
    /\ spc = "idle"
    /\ working_directory \in {"unset", "valid", "invalid"}
    /\ is_log \in [Streams -> BOOLEAN]
    /\ shutdown_senders = FALSE
    /\ child = FALSE
    /\ closed = FALSE
    /\ shutdown_ch = [c \in Chans |-> 0]
    /\ shutdown_sent = [c \in Chans |-> 0]
    /\ done_ch = [r \in Streams |-> 0]
    /\ done_sent = [r \in Streams |-> 0]
    /\ rpc = [r \in Streams |-> "none"]
    /\ line_res = [r \in Streams |-> 0]
    /\ has = [r \in Streams |-> FALSE]
    /\ written = [r \in Streams |-> 0]
    /\ nread = [r \in Streams |-> 0]
    /\ child_st = "none"
    /\ status = NoCode
    /\ sig_pending = "none"
    /\ procs = [p \in Pids |-> Absent]
    /\ order = Identity
    /\ spawned = 0
    /\ wpc = "none"
    /\ watcher_child = FALSE
    /\ exit_code = NoCode
    /\ system = [p \in Pids |-> Absent]
    /\ processes_to_kill = <<>>
    /\ tree_root = 0
    /\ tpc = "idle"
    /\ events = <<>>
    /\ oslog = <<>>
    /\ child_at_cancel = "unfired"

\* ------------------------------------------------------- cmd_run (session)
\* Lines 134-146: no working directory is configured, or the configured
\* one exists and is a directory.
DirNotChecked(wd) == TRUE

DirOk(wd) == wd # "invalid"

\* Lines 83-158: channels are created and the senders stored; the working
\* directory is configured but is no directory: one Error, close, return.
CmdRunConfigError ==
    /\ spc = "idle"
    /\ ~DirOk(working_directory)
    /\ shutdown_senders' = TRUE
    /\ events' = Append(events, Event("Error", 0))
    /\ closed' = TRUE
    /\ spc' = "returned"
    /\ UNCHANGED <<working_directory, is_log, child>>
    /\ UNCHANGED <<chanVars, readerVars, pipeVars, procVars, watcherVars,
                   treeVars, oslog>>
    /\ UNCHANGED child_at_cancel

\* Lines 83-173: command.spawn() fails: one Error, close, return.
CmdRunSpawnError ==
    /\ spc = "idle"
    /\ DirOk(working_directory)
    /\ shutdown_senders' = TRUE
    /\ events' = Append(events, Event("Error", 0))
    /\ closed' = TRUE
    /\ spc' = "returned"
    /\ UNCHANGED <<working_directory, is_log, child>>
    /\ UNCHANGED <<chanVars, readerVars, pipeVars, procVars, watcherVars,
                   treeVars, oslog>>
    /\ UNCHANGED child_at_cancel

\* Lines 83-188: command.spawn() succeeds; self.child = Some(child); the
\* pipes are taken out of the handle (each may be absent).
CmdRunSpawn ==
    /\ spc = "idle"
    /\ DirOk(working_directory)
    /\ shutdown_senders' = TRUE
    /\ child' = TRUE
    /\ child_st' = "running"
    /\ procs' = [procs EXCEPT ![ChildPid] = NoParent]
    /\ spawned' = spawned + 1
    /\ \E h \in [Streams -> BOOLEAN] : has' = h
    /\ spc' = "spawned"
    /\ UNCHANGED <<working_directory, is_log, closed, status, sig_pending,
                   written, nread>>
    /\ UNCHANGED <<chanVars, readerVars, watcherVars, treeVars, events,
                   oslog>>
    /\ UNCHANGED child_at_cancel

\* Lines 190-240 (stdout) and 242-292 (stderr): start the reader thread, or
\* send the completion signal at once when the pipe is absent.
StartReader(r) ==
    /\ IF has[r]
       THEN /\ rpc' = [rpc EXCEPT ![r] = "read"]
            /\ UNCHANGED <<done_ch, done_sent>>
       ELSE /\ ~SendBlocks(done_ch[r], DoneRxAlive)
            /\ done_ch' = [done_ch EXCEPT ![r] = SendResult(@, DoneRxAlive)]
            /\ done_sent' = [done_sent EXCEPT ![r] = @ + 1]
            /\ UNCHANGED rpc

CmdRunStartStdout ==
    /\ spc = "spawned"
    /\ StartReader("stdout")
    /\ spc' = "stdout_started"
    /\ UNCHANGED <<working_directory, is_log, shutdown_senders, child, closed>>
    /\ UNCHANGED <<shutdown_ch, shutdown_sent, line_res, pipeVars, procVars,
                   watcherVars, treeVars, events, oslog>>
    /\ UNCHANGED child_at_cancel

CmdRunStartStderr ==
    /\ spc = "stdout_started"
    /\ StartReader("stderr")
    /\ spc' = "stderr_started"
    /\ UNCHANGED <<working_directory, is_log, shutdown_senders, child, closed>>
    /\ UNCHANGED <<shutdown_ch, shutdown_sent, line_res, pipeVars, procVars,
                   watcherVars, treeVars, events, oslog>>
    /\ UNCHANGED child_at_cancel

\* Lines 294-353: self.child.take() moves the handle into the watcher
\* thread, which is spawned; cmd_run returns.
KeepChild == TRUE

TakeChild == FALSE

CmdRunStartWatcher ==
    /\ spc = "stderr_started"
    /\ IF child
       THEN /\ child' = TakeChild
            /\ watcher_child' = TRUE
            /\ wpc' = "select"
       ELSE UNCHANGED <<child, watcher_child, wpc>>
    /\ spc' = "returned"
    /\ UNCHANGED <<working_directory, is_log, shutdown_senders, closed, exit_code>>
    /\ UNCHANGED <<chanVars, readerVars, pipeVars, procVars, treeVars,
                   events, oslog>>
    /\ UNCHANGED child_at_cancel

\* --------------------------------------------------------- reader threads
\* The write end of a pipe is open while the child runs.
PipeOpen == child_st = "running"

\* reader.lines().next() (lines 210, 262) returns Ok(line): the next line
\* of the pipe is taken.
ReaderReadLine(r) ==
    /\ rpc[r] = "read"
    /\ nread[r] < written[r]
    /\ nread' = [nread EXCEPT ![r] = @ + 1]
    /\ line_res' = [line_res EXCEPT ![r] = nread[r] + 1]
    /\ rpc' = [rpc EXCEPT ![r] = "check"]
    /\ UNCHANGED <<sessionVars, chanVars, has, written, procVars, watcherVars,
                   treeVars, events, oslog>>
    /\ UNCHANGED child_at_cancel

\* reader.lines().next() returns Err: the data of the line is consumed but
\* cannot be returned as a line.
ReaderReadErr(r) ==
    /\ rpc[r] = "read"
    /\ nread[r] < written[r]
    /\ nread' = [nread EXCEPT ![r] = @ + 1]
    /\ line_res' = [line_res EXCEPT ![r] = -1]
    /\ rpc' = [rpc EXCEPT ![r] = "check"]
    /\ UNCHANGED <<sessionVars, chanVars, has, written, procVars, watcherVars,
                   treeVars, events, oslog>>
    /\ UNCHANGED child_at_cancel

\* reader.lines().next() returns None (EOF): the for loop ends.
ReaderEof(r) ==
    /\ rpc[r] = "read"
    /\ nread[r] = written[r]
    /\ ~PipeOpen
    /\ rpc' = [rpc EXCEPT ![r] = "done_send"]
    /\ UNCHANGED <<sessionVars, chanVars, line_res, pipeVars, procVars,
                   watcherVars, treeVars, events, oslog>>
    /\ UNCHANGED child_at_cancel

\* Lines 212-214, 264-266: shutdown_rx.try_recv().is_ok() => break.
CancelIgnored(r) == FALSE

CancelObserved(r) == shutdown_ch[r] > 0

\* Line 213: break leaves the for loop; the thread goes on to line 235.
ReturnOnCancel == "terminated"

AfterCancelBreak == "done_send"

ReaderCheck(r) ==
    /\ rpc[r] = "check"
    /\ IF CancelObserved(r)
       THEN /\ shutdown_ch' = [shutdown_ch EXCEPT ![r] = @ - 1]
            /\ rpc' = [rpc EXCEPT ![r] = AfterCancelBreak]
       ELSE /\ rpc' = [rpc EXCEPT ![r] = "match"]
            /\ UNCHANGED shutdown_ch
    /\ UNCHANGED <<sessionVars, shutdown_sent, done_ch, done_sent, line_res,
                   pipeVars, procVars, watcherVars, treeVars, events, oslog>>
    /\ UNCHANGED child_at_cancel

\* Lines 231, 283: Err(_) => break sends nothing.
ReadErrAsError == <<Event("Error", 0)>>

ReadErrEvents == <<>>

\* Lines 216-232, 268-284: match line_res: Ok(line) => do_send of the
\* output event, Err(_) => break.
ReaderMatch(r) ==
    /\ rpc[r] = "match"
    /\ IF line_res[r] > 0
       THEN /\ events' = Append(events, Event(OutputType(r, is_log[r]), line_res[r]))
            /\ rpc' = [rpc EXCEPT ![r] = "read"]
       ELSE /\ rpc' = [rpc EXCEPT ![r] = "done_send"]
            /\ events' = events \o ReadErrEvents
    /\ line_res' = [line_res EXCEPT ![r] = 0]
    /\ UNCHANGED <<sessionVars, chanVars, pipeVars, procVars, watcherVars,
                   treeVars, oslog>>
    /\ UNCHANGED child_at_cancel

\* Lines 235, 287: let _ = done_tx.send(()); the thread returns.
ReaderDone(r) ==
    /\ rpc[r] = "done_send"
    /\ ~SendBlocks(done_ch[r], DoneRxAlive)
    /\ done_ch' = [done_ch EXCEPT ![r] = SendResult(@, DoneRxAlive)]
    /\ done_sent' = [done_sent EXCEPT ![r] = @ + 1]
    /\ rpc' = [rpc EXCEPT ![r] = "terminated"]
    /\ UNCHANGED <<sessionVars, shutdown_ch, shutdown_sent, line_res, pipeVars,
                   procVars, watcherVars, treeVars, events, oslog>>
    /\ UNCHANGED child_at_cancel

\* ------------------------------------------------------ the child process
\* The child writes one more line to a captured pipe.
ChildWrite(r) ==
    /\ child_st = "running"
    /\ has[r]
    /\ written["stdout"] + written["stderr"] < MaxLines
    /\ written' = [written EXCEPT ![r] = @ + 1]
    /\ UNCHANGED <<sessionVars, chanVars, readerVars, has, nread, procVars,
                   watcherVars, treeVars, events, oslog>>
    /\ UNCHANGED child_at_cancel

\* The child exits by itself with an exit code; it stays in the process
\* table until it is waited for.
ChildExit ==
    /\ child_st = "running"
    /\ \E c \in ExitCodes : status' = c
    /\ child_st' = "zombie"
    /\ UNCHANGED <<sessionVars, chanVars, readerVars, pipeVars, sig_pending,
                   procs, spawned, watcherVars, treeVars, events, oslog>>
    /\ UNCHANGED child_at_cancel

\* The child is terminated by a signal it was sent: its status has no code.
ChildSignalled ==
    /\ child_st = "running"
    /\ sig_pending # "none"
    /\ status' = NoCode
    /\ child_st' = "zombie"
    /\ UNCHANGED <<sessionVars, chanVars, readerVars, pipeVars, sig_pending,
                   procs, spawned, watcherVars, treeVars, events, oslog>>
    /\ UNCHANGED child_at_cancel

\* ------------------------------------------------------ kill_process_tree
\* The pids a pass over list signals, given the snapshot table.
SignalledPids(list, table) ==
    {list[i] : i \in {j \in 1..Len(list) : list[j] \in Pids /\ table[list[j]] # Absent}}

\* Lines 25-41: refresh the snapshot, build the candidate list for pid and
\* send Term to every candidate found in the snapshot.
TreeTerm(pid, by) ==
    /\ tree_root' = pid
    /\ system' = procs
    /\ processes_to_kill' = KillCandidates(system', order, pid)
    /\ oslog' = oslog \o PassLog(processes_to_kill', system', "Term", by, 1)
    /\ sig_pending' = IF child_st = "running"
                         /\ ChildPid \in SignalledPids(processes_to_kill', system')
                      THEN "Term" ELSE sig_pending
    /\ tpc' = "sleep"

\* Lines 47-52 without the refresh_all of line 47.
TreeKillStale(by) ==
    /\ system' = system
    /\ oslog' = oslog \o PassLog(processes_to_kill, system, "Kill", by, 1)
    /\ sig_pending' = IF child_st = "running"
                         /\ ChildPid \in SignalledPids(processes_to_kill, system)
                      THEN "Kill" ELSE sig_pending
    /\ tpc' = "done"
    /\ UNCHANGED <<processes_to_kill, tree_root>>

\* Lines 47-52: refresh again and send Kill to every candidate still found.
TreeKill(by) ==
    /\ system' = procs
    /\ oslog' = oslog \o PassLog(processes_to_kill, system', "Kill", by, 1)
    /\ sig_pending' = IF child_st = "running"
                         /\ ChildPid \in SignalledPids(processes_to_kill, system')
                      THEN "Kill" ELSE sig_pending
    /\ tpc' = "done"
    /\ UNCHANGED <<processes_to_kill, tree_root>>

\* ---------------------------------------------------------- watcher thread
\* The senders of this command's shutdown channels are gone: cleanup_threads
\* took and dropped them (358-362), or a later call of cmd_run overwrote
\* self.shutdown_senders with the senders of its own channels (93-97).
SendersDropped == ~shutdown_senders \/ spc = "rerun"

\* select! recv(shutdown_rx) is ready: a message is buffered, or every
\* sender has been dropped.
RecvAlways == TRUE

RecvNever == FALSE

RecvReady == shutdown_ch["wait"] > 0 \/ SendersDropped

\* status.code().unwrap_or(-1)
CodeOrZero(st) == IF st = NoCode THEN 0 ELSE st

CodeOf(st) == IF st = NoCode THEN Sentinel ELSE st

\* Lines 303-306: the first call of the recv arm is kill_process_tree.
HandleKillFirst == "kill"

RecvArmFirst == "tree_term"

\* Lines 302-306: the recv arm of select! is taken.
WatcherSelectCancel ==
    /\ wpc = "select"
    /\ RecvReady
    /\ shutdown_ch' = [shutdown_ch EXCEPT !["wait"] = IF @ > 0 THEN @ - 1 ELSE @]
    /\ wpc' = RecvArmFirst
    /\ UNCHANGED <<sessionVars, shutdown_sent, done_ch, done_sent, readerVars,
                   pipeVars, procVars, watcher_child, exit_code, treeVars,
                   events, oslog>>
    /\ UNCHANGED child_at_cancel

\* Line 306: kill_process_tree(child.id()), first pass.
WatcherTreeTerm ==
    /\ wpc = "tree_term"
    /\ TreeTerm(ChildPid, "watcher")
    /\ wpc' = "tree_sleep"
    /\ UNCHANGED <<sessionVars, chanVars, readerVars, pipeVars, child_st,
                   status, procs, spawned, watcher_child, exit_code, order,
                   events>>
    /\ UNCHANGED child_at_cancel

\* Line 306: kill_process_tree, after the grace period: second pass.
WatcherTreeKill ==
    /\ wpc = "tree_sleep"
    /\ TreeKill("watcher")
    /\ wpc' = "kill"
    /\ UNCHANGED <<sessionVars, chanVars, readerVars, pipeVars, child_st,
                   status, procs, spawned, watcher_child, exit_code, order,
                   events>>
    /\ UNCHANGED child_at_cancel

\* Line 307: let _ = child.kill(): the handle has no exit status yet, so
\* the kill signal is sent to the child's pid.
WatcherKill ==
    /\ wpc = "kill"
    /\ oslog' = Append(oslog, [op |-> "HandleKill", pid |-> ChildPid, by |-> "watcher"])
    /\ sig_pending' = IF child_st = "running" THEN "Kill" ELSE sig_pending
    /\ wpc' = "wait"
    /\ UNCHANGED <<sessionVars, chanVars, readerVars, pipeVars, child_st,
                   status, procs, spawned, watcher_child, exit_code, treeVars,
                   events>>
    /\ UNCHANGED child_at_cancel

\* Lines 309-310: child.wait() returns Ok(status) once the child has exited.
WatcherWait ==
    /\ wpc = "wait"
    /\ child_st = "zombie"
    /\ exit_code' = CodeOf(status)
    /\ child_st' = "reaped"
    /\ procs' = [procs EXCEPT ![ChildPid] = Absent]
    /\ oslog' = Append(oslog, [op |-> "Wait", pid |-> ChildPid, by |-> "watcher"])
    /\ wpc' = "join_stdout"
    /\ UNCHANGED <<sessionVars, chanVars, readerVars, pipeVars, status,
                   sig_pending, spawned, watcher_child, treeVars, events>>
    /\ UNCHANGED child_at_cancel

\* Line 311: child.wait() returns Err(_): the exited child's status cannot
\* be collected.
WatcherWaitErr ==
    /\ wpc = "wait"
    /\ child_st = "zombie"
    /\ exit_code' = Sentinel
    /\ child_st' = "reaped"
    /\ procs' = [procs EXCEPT ![ChildPid] = Absent]
    /\ oslog' = Append(oslog, [op |-> "WaitErr", pid |-> ChildPid, by |-> "watcher"])
    /\ wpc' = "join_stdout"
    /\ UNCHANGED <<sessionVars, chanVars, readerVars, pipeVars, status,
                   sig_pending, spawned, watcher_child, treeVars, events>>
    /\ UNCHANGED child_at_cancel

\* Lines 314-317: default arm, child.try_wait() returns Ok(Some(status)).
WatcherPollExited ==
    /\ wpc = "select"
    /\ ~RecvReady
    /\ child_st = "zombie"
    /\ exit_code' = CodeOf(status)
    /\ child_st' = "reaped"
    /\ procs' = [procs EXCEPT ![ChildPid] = Absent]
    /\ wpc' = "join_stdout"
    /\ UNCHANGED <<sessionVars, chanVars, readerVars, pipeVars, status,
                   sig_pending, spawned, watcher_child, treeVars, events,
                   oslog>>
    /\ UNCHANGED child_at_cancel

\* Lines 318-321, 327-333: try_wait() returns Ok(None): sleep, loop again.
WatcherPollRunning ==
    /\ wpc = "select"
    /\ ~RecvReady
    /\ child_st = "running"
    /\ wpc' = "sleep"
    /\ UNCHANGED <<sessionVars, chanVars, readerVars, pipeVars, procVars,
                   watcher_child, exit_code, treeVars, events, oslog>>
    /\ UNCHANGED child_at_cancel

\* Line 322: try_wait() returns Err(_): the exited child's status cannot be
\* collected.
WatcherPollErr ==
    /\ wpc = "select"
    /\ ~RecvReady
    /\ child_st = "zombie"
    /\ exit_code' = Sentinel
    /\ child_st' = "reaped"
    /\ procs' = [procs EXCEPT ![ChildPid] = Absent]
    /\ oslog' = Append(oslog, [op |-> "TryWaitErr", pid |-> ChildPid, by |-> "watcher"])
    /\ wpc' = "join_stdout"
    /\ UNCHANGED <<sessionVars, chanVars, readerVars, pipeVars, status,
                   sig_pending, spawned, watcher_child, treeVars, events>>
    /\ UNCHANGED child_at_cancel

\* Line 333: the 50 ms sleep ends.
WatcherSleep ==
    /\ wpc = "sleep"
    /\ wpc' = "select"
    /\ UNCHANGED <<sessionVars, chanVars, readerVars, pipeVars, procVars,
                   watcher_child, exit_code, treeVars, events, oslog>>
    /\ UNCHANGED child_at_cancel

\* Lines 340-347: if has_<stream> { let _ = <stream>_done_rx.recv(); }
\* recv() returns once a message is buffered or the sender is gone.
JoinNoWait(r) == TRUE

JoinReady(r) == ~has[r] \/ done_ch[r] > 0 \/ rpc[r] = "terminated"

Join(r) ==
    /\ JoinReady(r)
    /\ done_ch' = [done_ch EXCEPT ![r] = IF has[r] /\ @ > 0 THEN @ - 1 ELSE @]

WatcherJoinStdout ==
    /\ wpc = "join_stdout"
    /\ Join("stdout")
    /\ wpc' = "join_stderr"
    /\ UNCHANGED <<sessionVars, shutdown_ch, shutdown_sent, done_sent,
                   readerVars, pipeVars, procVars, watcher_child, exit_code,
                   treeVars, events, oslog>>
    /\ UNCHANGED child_at_cancel

WatcherJoinStderr ==
    /\ wpc = "join_stderr"
    /\ Join("stderr")
    /\ wpc' = "send_exit"
    /\ UNCHANGED <<sessionVars, shutdown_ch, shutdown_sent, done_sent,
                   readerVars, pipeVars, procVars, watcher_child, exit_code,
                   treeVars, events, oslog>>
    /\ UNCHANGED child_at_cancel

\* Line 350: the event the watcher sends last.
ExitOnlyWithCode(code) == IF code = Sentinel THEN <<>> ELSE <<Event("Exit", code)>>

ExitEvents(code) == <<Event("Exit", code)>>

\* Line 350: addr2.do_send(RunCmdOutput::Exit(exit_code)); the thread
\* returns and the Child handle it owns is dropped.
WatcherSendExit ==
    /\ wpc = "send_exit"
    /\ events' = events \o ExitEvents(exit_code)
    /\ watcher_child' = FALSE
    /\ wpc' = "terminated"
    /\ UNCHANGED <<sessionVars, chanVars, readerVars, pipeVars, procVars,
                   exit_code, treeVars, oslog>>
    /\ UNCHANGED child_at_cancel

\* ---------------------------------------------------------- cleanup_threads
\* Lines 358-362: self.shutdown_senders.take(); one send on each channel;
\* the senders are dropped.
KeepSenders == TRUE

TakeSenders == FALSE

FireShutdown ==
    /\ \A c \in Chans : ~SendBlocks(shutdown_ch[c], ShutdownRxAlive(c))
    /\ shutdown_ch' = [c \in Chans |-> SendResult(shutdown_ch[c], ShutdownRxAlive(c))]
    /\ shutdown_sent' = [c \in Chans |-> shutdown_sent[c] + 1]
    /\ shutdown_senders' = TakeSenders
    /\ child_at_cancel' = child_st

\* Lines 366-369: the session still holds the handle.
AlwaysOwns == TRUE

SessionOwnsChild == child

\* Lines 366-369: kill_process_tree(child.id()); let _ = child.kill(); the
\* handle is dropped.
DirectKill ==
    /\ tree_root' = ChildPid
    /\ system' = procs
    /\ tpc' = "done"
    /\ processes_to_kill' = KillCandidates(system', order, ChildPid)
    /\ oslog' = oslog
                \o PassLog(processes_to_kill', system', "Term", "session", 1)
                \o PassLog(processes_to_kill', system', "Kill", "session", 1)
                \o <<[op |-> "HandleKill", pid |-> ChildPid, by |-> "session"]>>
    /\ sig_pending' = IF child_st = "running" THEN "Kill" ELSE sig_pending
    /\ child' = FALSE

\* WsRunCmd::cleanup_threads (lines 356-370); it takes &mut self, so it
\* runs only while the session is not inside cmd_run.
CleanupThreads ==
    /\ spc \in {"idle", "returned"}
    /\ IF shutdown_senders
       THEN FireShutdown
       ELSE UNCHANGED <<shutdown_ch, shutdown_sent, shutdown_senders,
                       child_at_cancel>>
    /\ IF SessionOwnsChild
       THEN DirectKill
       ELSE UNCHANGED <<tree_root, system, tpc, processes_to_kill, oslog,
                       sig_pending, child>>
    /\ UNCHANGED <<spc, working_directory, is_log, closed, done_ch, done_sent,
                   readerVars, pipeVars, child_st, status, procs, spawned,
                   watcherVars, order, events>>

\* ------------------------------------------------------------ specification
Next ==
    \/ CmdRunConfigError
    \/ CmdRunSpawnError
    \/ CmdRunSpawn
    \/ CmdRunStartStdout
    \/ CmdRunStartStderr
    \/ CmdRunStartWatcher
    \/ CleanupThreads
    \/ \E r \in Streams : ReaderReadLine(r)
    \/ \E r \in Streams : ReaderReadErr(r)
    \/ \E r \in Streams : ReaderEof(r)
    \/ \E r \in Streams : ReaderCheck(r)
    \/ \E r \in Streams : ReaderMatch(r)
    \/ \E r \in Streams : ReaderDone(r)
    \/ \E r \in Streams : ChildWrite(r)
    \/ ChildExit
    \/ ChildSignalled
    \/ WatcherSelectCancel
    \/ WatcherTreeTerm
    \/ WatcherTreeKill
    \/ WatcherKill
    \/ WatcherWait
    \/ WatcherWaitErr
    \/ WatcherPollExited
    \/ WatcherPollRunning
    \/ WatcherPollErr
    \/ WatcherSleep
    \/ WatcherJoinStdout
    \/ WatcherJoinStderr
    \/ WatcherSendExit

Spec == Init /\ [][Next]_vars

\* --------------------------------------------- a further call of cmd_run
\* cmd_run is called again on the session after an earlier call returned,
\* and fails (lines 83-158 or 83-173): the assignment at 93-97 replaces the
\* stored senders, dropping those of the earlier command; one Error, close,
\* return.  The new channels' receivers are dropped at the return.
CmdRunAgainError ==
    /\ spc = "returned"
    /\ shutdown_senders' = TRUE
    /\ events' = Append(events, Event("Error", 0))
    /\ closed' = TRUE
    /\ spc' = "rerun"
    /\ UNCHANGED <<working_directory, is_log, child>>
    /\ UNCHANGED <<chanVars, readerVars, pipeVars, procVars, watcherVars,
                   treeVars, oslog>>
    /\ UNCHANGED child_at_cancel

\* cleanup_threads after the failed further call: the stored senders belong
\* to channels without receivers, so the three sends return Err; self.child
\* is None.
CleanupAfterRerun ==
    /\ spc = "rerun"
    /\ shutdown_senders
    /\ shutdown_senders' = TakeSenders
    /\ UNCHANGED <<spc, working_directory, is_log, child, closed>>
    /\ UNCHANGED <<chanVars, readerVars, pipeVars, procVars, watcherVars,
                   treeVars, events, oslog>>
    /\ UNCHANGED child_at_cancel

NextRerun ==
    \/ Next
    \/ CmdRunAgainError
    \/ CleanupAfterRerun

RerunInit == Init /\ is_log = [r \in Streams |-> FALSE] /\ working_directory # "valid"

SpecRerun == RerunInit /\ [][NextRerun]_vars

\* The threads are scheduled by the operating system: a thread that can
\* take a step eventually takes one, and a child that was sent a signal is
\* eventually terminated by it.  The session and a child left alone need
\* not act.
ReaderStep(r) ==
    \/ ReaderReadLine(r)
    \/ ReaderReadErr(r)
    \/ ReaderEof(r)
    \/ ReaderCheck(r)
    \/ ReaderMatch(r)
    \/ ReaderDone(r)

WatcherStep ==
    \/ WatcherSelectCancel
    \/ WatcherTreeTerm
    \/ WatcherTreeKill
    \/ WatcherKill
    \/ WatcherWait
    \/ WatcherWaitErr
    \/ WatcherPollExited
    \/ WatcherPollRunning
    \/ WatcherPollErr
    \/ WatcherSleep
    \/ WatcherJoinStdout
    \/ WatcherJoinStderr
    \/ WatcherSendExit

Fairness ==
    /\ WF_vars(WatcherStep)
    /\ \A r \in Streams : WF_vars(ReaderStep(r))
    /\ WF_vars(ChildSignalled)

\* The session model for one setting of the log flags, under fair scheduling.
LiveInit == Init /\ is_log = [r \in Streams |-> FALSE] /\ working_directory # "valid"

SpecLive == LiveInit /\ [][Next]_vars /\ Fairness

\* ------------------------------------- kill_process_tree on any process table
\* Every process table over Pids and every iteration order of
\* system.processes(); the session does not run in this specification.
TreeInit ==
    /\ spc = "idle"
    /\ working_directory = "unset"
    /\ is_log = [r \in Streams |-> FALSE]
    /\ shutdown_senders = FALSE
    /\ child = FALSE
    /\ closed = FALSE
    /\ shutdown_ch = [c \in Chans |-> 0]
    /\ shutdown_sent = [c \in Chans |-> 0]
    /\ done_ch = [r \in Streams |-> 0]
    /\ done_sent = [r \in Streams |-> 0]
    /\ rpc = [r \in Streams |-> "none"]
    /\ line_res = [r \in Streams |-> 0]
    /\ has = [r \in Streams |-> FALSE]
    /\ written = [r \in Streams |-> 0]
    /\ nread = [r \in Streams |-> 0]
    /\ child_st = "none"
    /\ status = NoCode
    /\ sig_pending = "none"
    /\ procs \in [Pids -> {Absent, NoParent} \cup Pids]
    /\ order \in Permutations(Pids)
    /\ spawned = 0
    /\ wpc = "none"
    /\ watcher_child = FALSE
    /\ exit_code = NoCode
    /\ system = [p \in Pids |-> Absent]
    /\ processes_to_kill = <<>>
    /\ tree_root = 0
    /\ tpc = "idle"
    /\ events = <<>>
    /\ oslog = <<>>
    /\ child_at_cancel = "unfired"

\* kill_process_tree(pid), lines 25-41: snapshot, candidate list, first pass.
KillTreeTerm(pid) ==
    /\ tpc = "idle"
    /\ TreeTerm(pid, "caller")
    /\ UNCHANGED <<sessionVars, chanVars, readerVars, pipeVars, child_st,
                   status, procs, spawned, watcherVars, order, events>>
    /\ UNCHANGED child_at_cancel

\* A process leaves the process table during the grace period (line 44).
ProcessGone(p) ==
    /\ tpc = "sleep"
    /\ procs[p] # Absent
    /\ procs' = [procs EXCEPT ![p] = Absent]
    /\ UNCHANGED <<sessionVars, chanVars, readerVars, pipeVars, child_st,
                   status, sig_pending, spawned, watcherVars, treeVars,
                   events, oslog>>
    /\ UNCHANGED child_at_cancel

\* kill_process_tree, lines 47-52: refresh, second pass.
KillTreeKill ==
    /\ tpc = "sleep"
    /\ TreeKill("caller")
    /\ UNCHANGED <<sessionVars, chanVars, readerVars, pipeVars, child_st,
                   status, procs, spawned, watcherVars, order, events>>
    /\ UNCHANGED child_at_cancel

TreeNext ==
    \/ \E pid \in Pids : KillTreeTerm(pid)
    \/ \E p \in Pids : ProcessGone(p)
    \/ KillTreeKill

SpecTree == TreeInit /\ [][TreeNext]_vars

\* ===================================================================
\* Properties
\* ===================================================================
ExitIndexes == {i \in DOMAIN events : events[i].type = "Exit"}
OutputIndexes(r) == {i \in DOMAIN events : events[i].type \in OutputTypes(r)}
ExitCount == Cardinality(ExitIndexes)
OutCount(r) == Cardinality(OutputIndexes(r))
ErrorCount == Cardinality({i \in DOMAIN events : events[i].type = "Error"})
Launched == spawned > 0
SignalOps == {"Term", "Kill", "HandleKill"}
OpsBy(who) == {i \in DOMAIN oslog : oslog[i].by = who}
SignalIndexes == {i \in DOMAIN oslog : oslog[i].op \in SignalOps}

\* C1: whenever an Exit event has been emitted, the reader of every captured
\* stream has finished, and every output event of the command stands
\* strictly before the Exit event (none follows it).
C1_OutputBeforeExit ==
    \A i \in ExitIndexes :
        /\ \A r \in Streams : has[r] => rpc[r] = "terminated"
        /\ \A r \in Streams : \A j \in OutputIndexes(r) : j < i

\* C1 witness: both streams were captured, each produced an output event,
\* cancel was fired, and Exit was emitted.
C1_Witness ==
    /\ ExitCount = 1
    /\ OutCount("stdout") >= 1
    /\ OutCount("stderr") >= 1
    /\ shutdown_sent["wait"] = 1

\* C2: at most one Exit event is ever emitted for a spawned command, and
\* exactly one has been emitted once the watcher thread has terminated.
C2_ExactlyOneExit ==
    Launched =>
        /\ ExitCount <= 1
        /\ (wpc = "terminated" => ExitCount = 1)
        /\ (ExitCount = 1 => wpc = "terminated")

\* C2 witness: cancel raced with a spontaneous exit of a child one of whose
\* streams was not captured, and the watcher has terminated.
C2_Witness ==
    /\ wpc = "terminated"
    /\ child_at_cancel = "running"
    /\ status \in ExitCodes
    /\ ~has["stderr"]
    /\ has["stdout"]
    /\ ExitCount = 1

\* C6: when launching failed (the session was closed), exactly one Error
\* event and nothing else was emitted, no reader or watcher thread exists,
\* the session holds no child handle and cmd_run has returned; with an
\* invalid working directory no process is ever spawned, and cmd_run ends
\* in that failure.
C6_LaunchFailure ==
    /\ closed =>
        /\ events = <<Event("Error", 0)>>
        /\ spc = "returned"
        /\ \A r \in Streams : rpc[r] = "none"
        /\ wpc = "none"
        /\ ~child /\ ~watcher_child
        /\ spawned = 0
    /\ working_directory = "invalid" => spawned = 0 /\ child_st = "none"
    /\ (spc = "returned" /\ spawned = 0) => closed /\ ErrorCount = 1
    /\ ErrorCount > 0 => closed

\* C6 witness: a failed launch with a valid working directory (SpawnError)
\* after which cleanup_threads has run.
C6_Witness ==
    /\ closed
    /\ working_directory = "valid"
    /\ shutdown_sent["wait"] = 1

\* C3: if cleanup_threads fires the signals while the child is running,
\* then, the threads being scheduled fairly, the watcher eventually signals
\* the process tree and kills the child, and the Exit event is eventually
\* emitted.
WatcherKilled ==
    \E i \in OpsBy("watcher") : oslog[i].op = "HandleKill" /\ oslog[i].pid = ChildPid

C4_NoSignalAfterExit ==
    child_at_cancel \in {"zombie", "reaped"} =>
        /\ SignalIndexes = {}
        /\ ExitCount <= 1
        /\ (wpc = "terminated" => ExitCount = 1)

\* C4 amended: after a cancel fired when the child had already exited: if
\* the watcher had already collected the exit (reaped), no signal is ever
\* sent and child.kill() is never called; otherwise only the watcher acts,
\* on the child's pid only, with each of terminate, kill and child.kill()
\* at most once; in both cases Exit is emitted at most once, and exactly
\* once when the watcher has terminated.
C4_CancelAfterExit ==
    child_at_cancel \in {"zombie", "reaped"} =>
        /\ (child_at_cancel = "reaped" => SignalIndexes = {})
        /\ \A i \in SignalIndexes : oslog[i].by = "watcher" /\ oslog[i].pid = ChildPid
        /\ \A i, j \in SignalIndexes : oslog[i].op = oslog[j].op => i = j
        /\ child_st # "running"
        /\ sig_pending = "none"
        /\ ExitCount <= 1
        /\ (wpc = "terminated" => ExitCount = 1)

\* C4 witness: cancel found the child exited but not yet collected, the
\* watcher ran its kill sequence on it, and Exit was emitted.
C4_Witness ==
    /\ child_at_cancel = "zombie"
    /\ WatcherKilled
    /\ ExitCount = 1

\* C5 as claimed: once a reader's shutdown signal has been sent, that
\* reader emits no further output event.
C5_NoOutputAfterCancel ==
    [][\A r \in Streams : shutdown_sent[r] >= 1 => OutCount(r)' = OutCount(r)]_vars

\* C5 amended: once a reader's shutdown signal has been sent, the reader
\* passes no further cancellation check; the only output event it can still
\* emit is the one for the line whose check it had passed before the signal
\* was sent (at most one event), and the signal stays buffered until then.
C5_AtMostOneAfterCancel ==
    [][\A r \in Streams : shutdown_sent[r] >= 1 =>
            /\ (rpc[r]' = "match" => rpc[r] = "match")
            /\ (OutCount(r)' # OutCount(r) =>
                    /\ rpc[r] = "match"
                    /\ shutdown_ch[r] = ChanCap
                    /\ OutCount(r)' = OutCount(r) + 1
                    /\ rpc[r]' = "read")]_vars

\* C5 witness: the signal of the stdout reader has been sent while the
\* reader holds a line that already passed its check.
C5_Witness ==
    /\ shutdown_sent["stdout"] = 1
    /\ rpc["stdout"] = "match"
    /\ line_res["stdout"] > 0

\* C8: each shutdown channel is sent on at most once, the three channels
\* are sent on together, only by a call that holds the senders and takes
\* them; a call that finds no senders sends nothing.
C8_CancelIdempotent ==
    /\ [](\A c \in Chans : /\ shutdown_sent[c] <= 1
                           /\ shutdown_sent[c] = shutdown_sent["wait"]
                           /\ shutdown_ch[c] <= shutdown_sent[c])
    /\ [][shutdown_sent' # shutdown_sent =>
            /\ shutdown_senders /\ ~shutdown_senders'
            /\ \A c \in Chans : shutdown_sent[c]' = shutdown_sent[c] + 1]_vars
    /\ [][~shutdown_senders => shutdown_sent' = shutdown_sent]_vars

\* C8 witness: the senders were taken, every channel was sent on once, and
\* the watcher has received its signal.
C8_Witness ==
    /\ ~shutdown_senders
    /\ \A c \in Chans : shutdown_sent[c] = 1
    /\ shutdown_ch["wait"] = 0
    /\ wpc = "tree_term"

\* C9 as claimed: in every state after a successful launch exactly one of
\* the session and the watcher holds the child handle.
C9_ExactlyOneOwnerAlways ==
    Launched => (child # watcher_child)

\* C9 amended: after a successful launch and until the watcher thread
\* returns, exactly one of the session and the watcher holds the child
\* handle (first the session, then the watcher), never both; when the
\* watcher thread returns the handle is dropped and nobody holds it.
C9_OneOwnerUntilDropped ==
    Launched =>
        /\ ~(child /\ watcher_child)
        /\ (wpc # "terminated" => (child # watcher_child))
        /\ (wpc = "terminated" => ~child /\ ~watcher_child)
        /\ (child => wpc = "none")

\* C9 witness: the handle has been moved to the watcher.
C9_Witness ==
    /\ Launched
    /\ watcher_child
    /\ ~child
    /\ wpc = "wait"

\* C10: the session signals or kills only in a call that finds the child
\* handle in the session; a call that fires the signals while the session
\* holds no handle sends no signal, calls no kill or wait and changes
\* nothing of the process; the session and the watcher never both act on
\* the child.
SessionOpCount == Cardinality(OpsBy("session"))

C10_TeardownOnlyIfOwner ==
    /\ [][SessionOpCount' # SessionOpCount => child /\ ~child']_vars
    /\ [][(shutdown_sent' # shutdown_sent /\ ~child) =>
            /\ oslog' = oslog
            /\ sig_pending' = sig_pending
            /\ child_st' = child_st
            /\ procs' = procs
            /\ watcher_child' = watcher_child]_vars
    /\ [](OpsBy("session") = {} \/ OpsBy("watcher") = {})

\* C10 witness: the signals were fired while the watcher held the handle,
\* and the watcher, not the session, killed the child.
C10_Witness ==
    /\ shutdown_sent["wait"] = 1
    /\ child_at_cancel = "running"
    /\ WatcherKilled
    /\ OpsBy("session") = {}

\* C7: for a snapshot that is a forest, the kill-candidate list holds
\* exactly the root pid and the processes whose chain of parents, through
\* processes of the snapshot, reaches the root.
RECURSIVE TracesBack(_, _, _, _)
TracesBack(table, p, root, n) ==
    /\ table[p] \notin {Absent, NoParent}
    /\ \/ table[p] = root
       \/ /\ n > 0
          /\ table[table[p]] # Absent
          /\ TracesBack(table, table[p], root, n - 1)

Descendants(table, root) == {p \in Pids : TracesBack(table, p, root, MaxPid)}
IsForest(table) == \A p \in Pids : ~TracesBack(table, p, p, MaxPid)
Range(list) == {list[i] : i \in DOMAIN list}

C7_CandidatesAreTree ==
    (tpc = "sleep" /\ IsForest(system)) =>
        Range(processes_to_kill) = {tree_root} \cup Descendants(system, tree_root)

\* C7 witness: a forest in which the root has a child and a grandchild, and
\* the candidate list has been built.
C7_Witness ==
    /\ tpc = "sleep"
    /\ IsForest(system)
    /\ \E p, q \in Pids :
         /\ system[p] = tree_root
         /\ system[q] = p
         /\ q # tree_root
    /\ Len(processes_to_kill) = 3

\* C11: a reader thread sends on its completion channel exactly once, as
\* its last step (after its last event), however its loop ended; for a
\* stream that was not captured cmd_run itself sends once, at once, and no
\* reader thread exists.
ReaderStarted(r) ==
    IF r = "stdout"
    THEN spc \in {"stdout_started", "stderr_started", "returned"}
    ELSE spc \in {"stderr_started", "returned"}

C11_OneCompletionSignal ==
    /\ [](\A r \in Streams :
            /\ done_sent[r] <= 1
            /\ (rpc[r] = "terminated" => done_sent[r] = 1)
            /\ (rpc[r] \notin {"none", "terminated"} => done_sent[r] = 0)
            /\ (Launched /\ ~has[r] /\ ReaderStarted(r) =>
                    done_sent[r] = 1 /\ rpc[r] = "none")
            /\ (Launched /\ has[r] /\ ReaderStarted(r) => rpc[r] # "none"))
    /\ [][\A r \in Streams : done_sent[r] >= 1 => OutCount(r)' = OutCount(r)]_vars

\* C11 witness: the stdout reader ended on an observed cancellation after
\* emitting a line and has sent its completion signal; stderr was not
\* captured and its completion signal was sent by cmd_run.
C11_Witness ==
    /\ has["stdout"] /\ ~has["stderr"]
    /\ shutdown_sent["stdout"] = 1
    /\ shutdown_ch["stdout"] = 0
    /\ rpc["stdout"] = "terminated"
    /\ OutCount("stdout") = 1
    /\ nread["stdout"] = 2
    /\ done_sent["stdout"] = 1
    /\ done_sent["stderr"] = 1

\* C12: on the recv arm the watcher calls, in this order, the process-tree
\* terminator on the child's pid (both passes), kill() on the child handle and
\* the blocking wait(); it is never back in the polling loop once that
\* sequence has begun and joins the readers only after wait() has returned.
CancelOps == <<"Term", "Kill", "HandleKill">>
CancelLog == SelectSeq(oslog, LAMBDA e : e.op # "TryWaitErr")
JoinStates == {"join_stdout", "join_stderr", "send_exit", "terminated"}

C12_CancelSequence ==
    /\ [](LET n == Len(CancelLog) IN
            /\ n <= 4
            /\ \A i \in 1..n :
                  /\ CancelLog[i].by = "watcher"
                  /\ CancelLog[i].pid = ChildPid
                  /\ i <= 3 => CancelLog[i].op = CancelOps[i]
                  /\ i = 4 => CancelLog[i].op \in {"Wait", "WaitErr"}
            /\ (n > 0 => Len(oslog) = n /\ tree_root = ChildPid)
            /\ (wpc \in {"none", "select", "sleep", "tree_term"} => n = 0)
            /\ (wpc = "tree_sleep" => n = 1 /\ tpc = "sleep")
            /\ (wpc = "kill" => n = 2 /\ tpc = "done")
            /\ (wpc = "wait" => n = 3)
            /\ (wpc \in JoinStates => n \in {0, 4})
            /\ (n = 4 => child_st = "reaped"))
    /\ [][\A r \in Streams : done_ch'[r] < done_ch[r] =>
            wpc \in JoinStates /\ Len(CancelLog) \in {0, 4}]_vars

\* C12 witness: the watcher took the recv arm while the child ran, and the
\* log holds the four calls; the watcher has since joined a reader.
C12_Witness ==
    /\ child_at_cancel = "running"
    /\ Len(oslog) = 4
    /\ oslog[4].op = "Wait"
    /\ status = NoCode
    /\ has["stdout"]
    /\ wpc = "join_stderr"

\* C13: the code of the Exit event is the code the OS reported whenever
\* wait()/try_wait() returned a status carrying one, and is -1 exactly when
\* the call failed or the status carries no code; a failing wait or kill
\* neither suppresses the Exit event nor produces an Error event.
WaitFailed == \E i \in DOMAIN oslog : oslog[i].op \in {"WaitErr", "TryWaitErr"}

C13_ExitCode ==
    /\ \A i \in ExitIndexes :
          /\ (~WaitFailed /\ status \in ExitCodes => events[i].val = status)
          /\ (events[i].val = Sentinel <=> (WaitFailed \/ status = NoCode))
    /\ (wpc \in JoinStates /\ ~WaitFailed => exit_code = CodeOf(status))
    /\ (Launched => ErrorCount = 0)
    /\ (wpc = "terminated" => ExitCount = 1)

\* C13 witness: on the cancellation path the child had exited by itself with
\* code 3, wait() returned that status and Exit carries 3.
C13_Witness ==
    /\ WatcherKilled
    /\ ~WaitFailed
    /\ status = 3
    /\ \E i \in ExitIndexes : events[i].val = 3

\* C14: after a successful spawn no Error event is emitted; a reader whose
\* read failed leaves its loop for the completion send without emitting
\* anything, as at end of file, the other reader is not touched by that
\* step, and once the child has exited the Exit event still follows.
ReadFailed(r) == line_res[r] = -1 /\ rpc[r] = "match"

C14_ReadErrorIsEof ==
    /\ [](Launched => ErrorCount = 0)
    /\ [][\A r \in Streams :
            /\ (ReadFailed(r) /\ rpc'[r] # rpc[r] =>
                    /\ rpc'[r] = "done_send"
                    /\ events' = events
                    /\ \A q \in Streams \ {r} : rpc'[q] = rpc[q])
            /\ (rpc[r] \in {"done_send", "terminated"} =>
                    /\ rpc'[r] \in {"done_send", "terminated"}
                    /\ OutCount(r)' = OutCount(r))]_vars
    /\ ((\E r \in Streams : ReadFailed(r)) /\ spc = "returned"
            /\ child_st # "running")
          ~> (ExitCount = 1 /\ \A r \in Streams : has[r] => done_sent[r] = 1)

\* C14 witness: the stdout reader consumed a line it never emitted although
\* no cancellation was sent (its read failed) and has terminated; the stderr
\* reader emitted its line and the Exit event was sent; there is no Error.
C14_Witness ==
    /\ nread["stdout"] = 1 /\ OutCount("stdout") = 0
    /\ shutdown_sent["stdout"] = 0
    /\ rpc["stdout"] = "terminated"
    /\ OutCount("stderr") = 1
    /\ ExitCount = 1
    /\ ErrorCount = 0

\* C15: kill_process_tree makes two passes over one candidate list: the
\* first sends Term to every candidate found in the first snapshot, the
\* second, after the grace period and a fresh snapshot, sends Kill to every
\* candidate still in the process table; no Kill precedes a Term and no pid
\* outside the list is signalled.
SentPids(sig) ==
    LET sent == SelectSeq(oslog, LAMBDA e : e.op = sig)
    IN  [i \in 1..Len(sent) |-> sent[i].pid]

PresentCandidates(table) ==
    SelectSeq(processes_to_kill, LAMBDA p : p \in Pids /\ table[p] # Absent)

ListReturned == Overflow \notin {processes_to_kill[i] : i \in DOMAIN processes_to_kill}

C15_TwoPasses ==
    /\ [](ListReturned =>
            /\ \A i \in DOMAIN oslog :
                  /\ oslog[i].op \in {"Term", "Kill"}
                  /\ \E k \in DOMAIN processes_to_kill :
                        processes_to_kill[k] = oslog[i].pid
            /\ \A i, j \in DOMAIN oslog :
                  i < j => ~(oslog[i].op = "Kill" /\ oslog[j].op = "Term")
            /\ (tpc = "idle" => oslog = <<>>)
            /\ (tpc = "sleep" =>
                    /\ SentPids("Term") = PresentCandidates(system)
                    /\ SentPids("Kill") = <<>>)
            /\ (tpc = "done" =>
                    /\ SentPids("Kill") = PresentCandidates(procs)
                    /\ system = procs
                    /\ \A i \in DOMAIN SentPids("Kill") :
                          \E j \in DOMAIN SentPids("Term") :
                              SentPids("Term")[j] = SentPids("Kill")[i]))
    /\ [][tpc = "sleep" =>
            /\ processes_to_kill' = processes_to_kill
            /\ SentPids("Term")' = SentPids("Term")]_vars

\* C15 witness: root 1 with child 2 and an unrelated process 3; 2 left the
\* table during the grace period: Term went to 2 and 1, Kill to 1 only, and
\* 3 was never signalled.
C15_Witness ==
    /\ tpc = "done"
    /\ tree_root = 1
    /\ SentPids("Term") = <<2, 1>>
    /\ SentPids("Kill") = <<1>>
    /\ procs[3] # Absent

\* C16: in the candidate list of a forest snapshot every process comes
\* after all of its own descendants and the root pid is last, whatever the
\* iteration order of the process table; the first pass signals in that
\* order.
C16_ChildrenFirst ==
    (tpc = "sleep" /\ IsForest(system)) =>
        /\ processes_to_kill[Len(processes_to_kill)] = tree_root
        /\ \A i, j \in DOMAIN processes_to_kill :
              processes_to_kill[i] \in Descendants(system, processes_to_kill[j])
                  => i < j
        /\ \A i, j \in DOMAIN oslog :
              oslog[i].pid \in Descendants(system, oslog[j].pid) => i < j

\* C16 witness: the table is iterated parent first (1, 2, 3) and holds the
\* chain 1 <- 2 <- 3; the list for root 1 is grandchild, child, root.
C16_Witness ==
    /\ tpc = "sleep"
    /\ order = <<1, 2, 3>>
    /\ system = [p \in Pids |-> IF p = 1 THEN NoParent ELSE p - 1]
    /\ tree_root = 1
    /\ processes_to_kill = <<3, 2, 1>>
    /\ Len(oslog) = 3

\* C17: over the lifetime of a command each of the five capacity-1 channels
\* is sent to at most once, so the buffer never exceeds its capacity and no
\* send (cleanup_threads, a reader thread, cmd_run for a missing pipe) is
\* ever reached with a full buffer and a live receiver.
CleanupWouldSend == shutdown_senders /\ spc \in {"idle", "returned"}

C17_SendsNeverBlock ==
    /\ \A c \in Chans :
          /\ shutdown_sent[c] <= 1
          /\ shutdown_ch[c] <= ChanCap
          /\ (CleanupWouldSend => ~SendBlocks(shutdown_ch[c], ShutdownRxAlive(c)))
    /\ \A r \in Streams :
          /\ done_sent[r] <= 1
          /\ done_ch[r] <= ChanCap
          /\ (rpc[r] = "done_send" => ~SendBlocks(done_ch[r], DoneRxAlive))
    /\ (spc = "spawned" /\ ~has["stdout"] =>
            ~SendBlocks(done_ch["stdout"], DoneRxAlive))
    /\ (spc = "stdout_started" /\ ~has["stderr"] =>
            ~SendBlocks(done_ch["stderr"], DoneRxAlive))

\* C17 witness: cleanup_threads sent its three signals after the watcher and
\* both readers had terminated: every channel was sent to once, and the
\* signals to the dropped receivers were not buffered.
C17_Witness ==
    /\ has["stdout"] /\ has["stderr"]
    /\ child_at_cancel = "reaped"
    /\ wpc = "terminated"
    /\ \A c \in Chans : shutdown_sent[c] = 1 /\ shutdown_ch[c] = 0
    /\ \A r \in Streams : done_sent[r] = 1
    /\ ~shutdown_senders

\* C18: collect_child_processes returns, and lists no pid twice, for every
\* snapshot in which each pid has one recorded parent at most, cyclic parent
\* links included.
C18_CollectTerminates ==
    tpc = "sleep" =>
        /\ ListReturned
        /\ \A i, j \in DOMAIN processes_to_kill :
              processes_to_kill[i] = processes_to_kill[j] => i = j

\* C19: between a successful spawn and the start of the watcher the session
\* holds the child; whenever cmd_run is not executing (it returned normally
\* or through an error path) the child slot is empty, so cleanup_threads
\* never signals or kills anything itself, and the process-tree terminator
\* runs at most once, called by the watcher.
C19_ChildSlotEmpty ==
    /\ (spc \in {"idle", "returned"} => ~child)
    /\ (spc \in {"spawned", "stdout_started", "stderr_started"} => child)
    /\ OpsBy("session") = {}
    /\ \A i, j \in DOMAIN oslog :
          (oslog[i].op = oslog[j].op /\ oslog[i].op \in {"Term", "Kill"}) => i = j
    /\ (tpc # "idle" => wpc \notin {"none", "select", "sleep", "tree_term"})

\* C19 witness: cmd_run returned, cleanup_threads was called and found the
\* slot empty; the one run of the terminator is the watcher's.
C19_Witness ==
    /\ spc = "returned"
    /\ ~child
    /\ ~shutdown_senders
    /\ shutdown_sent["wait"] = 1
    /\ tpc = "done"
    /\ \E i \in OpsBy("watcher") : oslog[i].op = "Term"
    /\ wpc = "terminated"

\* C20: the watcher is on its cancellation path, and a running child has a
\* signal from the watcher pending, only if cleanup_threads has sent the
\* watcher's cancellation signal, in every sequence of cmd_run and
\* cleanup_threads calls, a call that replaces the stored senders included.
C20_CancelOnlyIfSent ==
    /\ (wpc \in {"tree_term", "tree_sleep", "kill", "wait"} => shutdown_sent["wait"] >= 1)
    /\ (Len(CancelLog) > 0 => shutdown_sent["wait"] >= 1)
    /\ (sig_pending # "none" => shutdown_sent["wait"] >= 1)

====
